---- MODULE Spec2Model ----
(***************************************************************************)
(* Model of the embedding batch builder (src/embed.py) and of the part of  *)
(* the serving process that loads its output (src/main.py, lifespan).      *)
(*                                                                         *)
(* The disk holds two files the builder writes: CHECKPOINT_FILE and        *)
(* OUTPUT_FILE.  A file is absent, opened-for-writing-and-not-yet-complete *)
(* ("partial": open(path, "w") truncates, json.dump then streams the       *)
(* text), or a complete JSON document.  One run of main() is a sequence of *)
(* steps; a run can be interrupted (SIGINT, kill, power loss) between any  *)
(* two steps, after which only the disk survives.                          *)
(***************************************************************************)
EXTENDS Integers, Sequences, FiniteSets, TLC

\* ---------------------------------------------------------------- bounds
MaxRecords == 3         \* records in data/transcripts.json
MaxBatch == 2           \* largest BATCH_SIZE explored
MaxRuns == 2            \* consecutive invocations of embed.py
MaxProvChanges == 1     \* times the provider changes the vector length it returns
MaxIds == 3             \* transcript IDs the server knows are 1..MaxIds
MaxOffset == 2          \* offsets of a search request are 0..MaxOffset
MaxLimit == 2           \* limits of a search request are 1..MaxLimit
MaxItems == 11          \* transcripts of the dataset the extraction job reads
MaxFailures == 1        \* extractions that fail

\* ------------------------------------------------------ program constants
max_retries == 5

Models == {"voyage-3", "voyage-3-lite"}
Dims == {2, 3}
Limits == {0, 1}        \* --limit not given (None, falsy like 0), or --limit 1
None == 0               \* Python None (dimension before the first result)

VARIABLES
    INPUT_FILE,         \* number of records in transcripts.json (ids 1..n, in order)
    BATCH_SIZE,         \* embed.py:28
    CHECKPOINT_FILE,    \* contents of data/embeddings_checkpoint.json
    OUTPUT_FILE,        \* contents of data/embeddings.json
    DATA_FILE,          \* contents of data/transcripts.json (main.py:19, normalize.py:20)
    pc,                 \* position of the current run of main()
    args,               \* argparse namespace: resume, model (limit is used at once)
    transcripts,        \* number of records after --limit
    processed_ids,
    embeddings,
    to_process,
    i,
    attempt,
    dimension,
    err,                \* exception that ended the run ("" if none)
    provDim,            \* vector length the provider currently returns
    provChanges,
    runs_left,
    started,            \* history: what the current run found when it started
    prev,               \* history: how the previous run started and ended
    audit,              \* history switch: record provider calls of the run
    nCalls,             \* history: provider calls issued by this run
    rlBatches,          \* history: batch offset -> rate-limit signals it received
    okCalls,            \* history: id -> successful provider calls containing it
    embed_call,         \* history: the provider call the builder made last
    server_up,
    embeddings_data,
    embedding_model,
    embedding_dimension,
    embeddings_order,   \* key order of the embeddings_data dict (main.py:263)
    transcripts_data,   \* main.py:22
    transcript_ids,     \* main.py:23
    request,            \* the request the server handled last
    vo_call,            \* the provider call that request made, if any
    response,           \* what the handler returned or raised
    previous_search,    \* history: the search handled before the last one
    requests_left,      \* requests the server will still be sent
    EXTRACT_CHECKPOINT_FILE,    \* contents of data/checkpoint.json (extract.py:25)
    extract_pc,                 \* position of the current run of extract.py's main()
    extract_args,               \* its argparse namespace: resume
    extract_i,                  \* items of all_items the loop has passed
    extract_processed_ids,      \* extract.py:145
    extract_transcripts_data,   \* extract.py:146
    extract_loaded,             \* history: the IDs load_checkpoint returned to this run
    extract_runs_left,          \* runs of the extraction job still to start
    extract_failures_left       \* extractions that will still fail

vars == <<INPUT_FILE, BATCH_SIZE, CHECKPOINT_FILE, OUTPUT_FILE, DATA_FILE, pc, args,
          transcripts, processed_ids, embeddings, to_process, i, attempt,
          dimension, err, provDim, provChanges, runs_left, started, prev,
          audit, nCalls, rlBatches, okCalls, embed_call, server_up, embeddings_data,
          embedding_model, embedding_dimension, embeddings_order,
          transcripts_data, transcript_ids, request, vo_call, response,
          previous_search, requests_left, EXTRACT_CHECKPOINT_FILE, extract_pc,
          extract_args, extract_i, extract_processed_ids, extract_transcripts_data,
          extract_loaded, extract_runs_left, extract_failures_left>>

disk == <<CHECKPOINT_FILE, OUTPUT_FILE>>
\* What the jobs that run before the builder and the server leave behind.
extraction == <<EXTRACT_CHECKPOINT_FILE, extract_pc, extract_args, extract_i,
                extract_processed_ids, extract_transcripts_data, extract_loaded,
                extract_runs_left, extract_failures_left>>
upstream == <<DATA_FILE, extraction>>
config == <<INPUT_FILE, BATCH_SIZE, audit, upstream>>
memory == <<processed_ids, embeddings, to_process, i, attempt, dimension>>
store == <<server_up, embeddings_data, embedding_model, embedding_dimension,
           embeddings_order>>
records == <<transcripts_data, transcript_ids>>
exchange == <<request, vo_call, response, previous_search, requests_left>>
server == <<store, records, exchange>>
calls == <<nCalls, rlBatches, okCalls, embed_call>>

\* ------------------------------------------------------------ data values
EmptyMap == << >>

Min(a, b) == IF a < b THEN a ELSE b

\* A file that does not exist.
Absent == [kind |-> "absent", processed_ids |-> {}, embeddings |-> EmptyMap,
           model |-> "", dimension |-> None, count |-> 0]

\* A file opened with mode "w" whose JSON text is not completely written.
Partial == [kind |-> "partial", processed_ids |-> {}, embeddings |-> EmptyMap,
            model |-> "", dimension |-> None, count |-> 0]

\* One embedding vector: the text it embeds, the model that was asked for
\* it and its length.
Vec(id, m, d) == [id |-> id, model |-> m, len |-> d]

NoArgs == [resume |-> FALSE, model |-> ""]
NoStart == [provChanges |-> 0, clean |-> TRUE]
NoPrev == [outcome |-> "none", resume |-> FALSE, model |-> "", transcripts |-> 0,
           provChanges |-> 0, clean |-> TRUE]

\* A Python str is a sequence of its characters; an Optional[str], or a key
\* a record may lack, is a record that says whether there is a value.
NoText == [some |-> FALSE, text |-> << >>]
Str(t) == [some |-> TRUE, text |-> t]

workforce == <<"w", "o", "r", "k", "f", "o", "r", "c", "e">>
creatives == <<"c", "r", "e", "a", "t", "i", "v", "e", "s">>

\* A record without sentiment and industry; odd IDs are workforce
\* interviews, even IDs are creatives interviews.
PlainRecord(tid) ==
    [transcript_id |-> tid,
     split |-> IF tid % 2 = 1 THEN workforce ELSE creatives,
     sentiment |-> NoText,
     industry |-> NoText]

\* data/transcripts.json: {"transcripts": [...]} (extract.py:183-185,
\* normalize.py:104-107), its records by transcript_id; or no file.
DataDoc(t) == [kind |-> "json", transcripts |-> t]
NoData == [kind |-> "absent", transcripts |-> EmptyMap]
PartialData == [kind |-> "partial", transcripts |-> EmptyMap]

\* data/checkpoint.json: the list of processed IDs (extract.py:107-110).
IdsDoc(ids) == [kind |-> "json", ids |-> ids]
NoIds == [kind |-> "absent", ids |-> {}]
PartialIds == [kind |-> "partial", ids |-> {}]

\* The file the builder counts INPUT_FILE records in.
Records(n) == DataDoc([tid \in 1..n |-> PlainRecord(tid)])

\* What the server has before its first request.
NoRequest == [endpoint |-> ""]
NoCall == [made |-> FALSE, texts |-> << >>, model |-> "", input_type |-> "",
           ok |-> FALSE, embedding |-> << >>]
NoResponse == [endpoint |-> "", status_code |-> 0, raised |-> "", detail |-> "",
               total |-> 0, offset |-> 0, limit |-> 0, results |-> << >>]
NoSearch == [request |-> NoRequest, vo_call |-> NoCall, response |-> NoResponse]

\* ------------------------------------------------------------ pure helpers
\* transcripts[: args.limit] when args.limit is truthy (embed.py:112-113):
\* the number of records kept; the records are ids 1..n in file order.
ApplyLimit(n, limit) == IF limit # 0 THEN Min(n, limit) ELSE n

\* load_checkpoint (embed.py:76-82): the pair (processed_ids, embeddings)
\* read back from the file, or the empty pair when the file does not exist.
load_checkpoint(file) ==
    IF file.kind = "json"
    THEN [processed_ids |-> file.processed_ids, embeddings |-> file.embeddings]
    ELSE [processed_ids |-> {}, embeddings |-> EmptyMap]

\* save_checkpoint's JSON document (embed.py:88-96).
CheckpointDoc(p, e, m, d) ==
    [kind |-> "json", processed_ids |-> p, embeddings |-> e, model |-> m,
     dimension |-> d, count |-> 0]

\* The final output document (embed.py:170-175).
OutputDoc(e, m, d) ==
    [kind |-> "json", processed_ids |-> {}, embeddings |-> e, model |-> m,
     dimension |-> d, count |-> Cardinality(DOMAIN e)]

\* [t for t in transcripts if t["transcript_id"] not in processed_ids]
\* (embed.py:118), in file order.
Unprocessed(n, done) == SelectSeq([k \in 1..n |-> k], LAMBDA id : id \notin done)

\* Mutant of Batch: the slice runs one element into the next batch.
BatchOverlapping(tp, at, size) == SubSeq(tp, at + 1, Min(at + size + 1, Len(tp)))

\* to_process[i : i + BATCH_SIZE] (embed.py:133), as the sequence of ids.
Batch(tp, at, size) == SubSeq(tp, at + 1, Min(at + size, Len(tp)))

\* What vo.embed returns for a batch: one vector per text, in order.
Embed(ids, m, d) == [k \in 1..Len(ids) |-> Vec(ids[k], m, d)]

Range(f) == {f[k] : k \in DOMAIN f}

\* A counter per key, with the keys of s counted once more.
Bump(f, s) ==
    [x \in DOMAIN f \cup s |->
        (IF x \in DOMAIN f THEN f[x] ELSE 0) + (IF x \in s THEN 1 ELSE 0)]

\* The loop of embed.py:152-154: zip(ids, result.embeddings), each pair
\* stored under its id.
MergeEmbeddings(e, ids, result) ==
    LET n == Min(Len(ids), Len(result))
        new == {ids[k] : k \in 1..n}
        last(id) == CHOOSE k \in 1..n : ids[k] = id /\ \A j \in 1..n : ids[j] = id => j <= k
    IN  [id \in DOMAIN e \cup new |-> IF id \in new THEN result[last(id)] ELSE e[id]]

\* Mutant of MergeProcessed: the id is recorded after the loop, not in it.
MergeProcessedAfterLoop(p, ids, result) ==
    p \cup {ids[Min(Len(ids), Len(result))]}

MergeProcessed(p, ids, result) ==
    p \cup {ids[k] : k \in 1..Min(Len(ids), Len(result))}

\* embed.py:157-158: the dimension is taken from the first result of the run.
NextDimension(d, result) == IF d = None THEN result[1].len ELSE d

\* ------------------------------------------------------------------ Init
\* No run of the builder has started.
BuilderIdle ==
    /\ CHECKPOINT_FILE = Absent
    /\ pc = "idle"
    /\ args = NoArgs
    /\ transcripts = 0
    /\ processed_ids = {}
    /\ embeddings = EmptyMap
    /\ to_process = << >>
    /\ i = 0
    /\ attempt = 0
    /\ dimension = None
    /\ err = ""
    /\ provChanges = 0
    /\ started = NoStart
    /\ prev = NoPrev
    /\ nCalls = 0
    /\ rlBatches = EmptyMap
    /\ okCalls = EmptyMap
    /\ embed_call = NoCall

\* No run of the extraction job has started.
ExtractIdle ==
    /\ EXTRACT_CHECKPOINT_FILE = NoIds
    /\ extract_pc = "idle"
    /\ extract_args = [resume |-> FALSE]
    /\ extract_i = 0
    /\ extract_processed_ids = {}
    /\ extract_transcripts_data = EmptyMap
    /\ extract_loaded = {}

\* The extraction job is over and not run again.
NoExtraction ==
    /\ ExtractIdle
    /\ extract_runs_left = 0
    /\ extract_failures_left = 0

\* The server has handled no request.
NoExchange ==
    /\ request = NoRequest
    /\ vo_call = NoCall
    /\ response = NoResponse
    /\ previous_search = NoSearch

InitCommon ==
    /\ BuilderIdle
    /\ NoExtraction
    /\ OUTPUT_FILE = Absent
    /\ provDim \in Dims
    /\ server_up = FALSE
    /\ embeddings_data = EmptyMap
    /\ embedding_model = ""
    /\ embedding_dimension = 0
    /\ embeddings_order = << >>
    /\ transcripts_data = EmptyMap
    /\ transcript_ids = << >>
    /\ NoExchange
    /\ requests_left = 0

Init ==
    /\ InitCommon
    /\ INPUT_FILE \in 0..MaxRecords
    /\ DATA_FILE = Records(INPUT_FILE)
    /\ BATCH_SIZE \in 1..MaxBatch
    /\ runs_left = MaxRuns
    /\ audit = FALSE

\* ------------------------------------------------------------ the builder
\* vo.embed(texts=texts, model=args.model, input_type="document")
\* (embed.py:143); the text composed for a record stands as its id.
DocumentCall(ids, model, ok) ==
    [made |-> TRUE, texts |-> ids, model |-> model, input_type |-> "document",
     ok |-> ok, embedding |-> << >>]

\* The history of the builder's provider call for the batch at i.
RememberCall(ok) ==
    embed_call' = IF audit
                  THEN DocumentCall(Batch(to_process, i, BATCH_SIZE), args.model, ok)
                  ELSE embed_call

Stopped == pc \in {"idle", "done", "aborted", "interrupted"}

ClearCalls ==
    /\ nCalls' = 0
    /\ rlBatches' = EmptyMap
    /\ okCalls' = EmptyMap
    /\ embed_call' = NoCall

\* main() up to the batch loop (embed.py:99-129).
StartRun(resume, model, limit) ==
    /\ Stopped
    /\ runs_left > 0
    /\ runs_left' = runs_left - 1
    /\ args' = [resume |-> resume, model |-> model]
    /\ transcripts' = ApplyLimit(INPUT_FILE, limit)
    /\ prev' = IF audit
               THEN [outcome |-> IF pc = "idle" THEN "none" ELSE pc,
                     resume |-> args.resume, model |-> args.model,
                     transcripts |-> transcripts,
                     provChanges |-> started.provChanges, clean |-> started.clean]
               ELSE prev
    /\ started' = IF audit
                  THEN [provChanges |-> provChanges,
                        clean |-> CHECKPOINT_FILE.kind = "absent"
                                  /\ OUTPUT_FILE.kind = "absent"]
                  ELSE started
    /\ ClearCalls
    /\ i' = 0
    /\ attempt' = 0
    /\ dimension' = None
    /\ IF resume /\ CHECKPOINT_FILE.kind = "partial"
       THEN \* json.load on a truncated document raises
            /\ pc' = "aborted"
            /\ err' = "JSONDecodeError"
            /\ processed_ids' = {}
            /\ embeddings' = EmptyMap
            /\ to_process' = << >>
       ELSE LET loaded == IF resume THEN load_checkpoint(CHECKPOINT_FILE)
                          ELSE load_checkpoint(Absent)
                todo == Unprocessed(transcripts', loaded.processed_ids)
            IN  /\ processed_ids' = loaded.processed_ids
                /\ embeddings' = loaded.embeddings
                /\ to_process' = todo
                /\ err' = ""
                /\ pc' = IF todo = << >> THEN "done" ELSE "embed"
    /\ UNCHANGED <<disk, config, server, provDim, provChanges>>

\* One successful vo.embed call and the merge of its result
\* (embed.py:143-144, 152-159).
EmbedBatch ==
    /\ pc = "embed"
    /\ LET ids == Batch(to_process, i, BATCH_SIZE)
           result == Embed(ids, args.model, provDim)
       IN  /\ embeddings' = MergeEmbeddings(embeddings, ids, result)
           /\ processed_ids' = MergeProcessed(processed_ids, ids, result)
           /\ dimension' = NextDimension(dimension, result)
           /\ nCalls' = IF audit THEN nCalls + 1 ELSE nCalls
           /\ okCalls' = IF audit THEN Bump(okCalls, Range(ids)) ELSE okCalls
           /\ RememberCall(TRUE)
    /\ pc' = "save_open"
    /\ UNCHANGED <<disk, config, server, args, transcripts, to_process, i, attempt,
                   err, provDim, provChanges, runs_left, started, prev,
                   rlBatches>>

\* Mutant of RateLimited: the bound is compared off by one, which allows a
\* sixth attempt.
RateLimitedOffByOne ==
    /\ pc = "embed"
    /\ nCalls' = IF audit THEN nCalls + 1 ELSE nCalls
    /\ rlBatches' = IF audit THEN Bump(rlBatches, {i}) ELSE rlBatches
    /\ RememberCall(FALSE)
    /\ IF attempt < max_retries
       THEN /\ attempt' = attempt + 1
            /\ UNCHANGED <<pc, err>>
       ELSE /\ pc' = "aborted"
            /\ err' = "RateLimitError"
            /\ UNCHANGED attempt
    /\ UNCHANGED <<disk, config, server, args, transcripts, processed_ids, embeddings,
                   to_process, i, dimension, provDim, provChanges, runs_left,
                   started, prev, okCalls>>

\* vo.embed raises RateLimitError (embed.py:145-150).
RateLimited ==
    /\ pc = "embed"
    /\ nCalls' = IF audit THEN nCalls + 1 ELSE nCalls
    /\ rlBatches' = IF audit THEN Bump(rlBatches, {i}) ELSE rlBatches
    /\ RememberCall(FALSE)
    /\ IF attempt < max_retries - 1
       THEN /\ attempt' = attempt + 1
            /\ UNCHANGED <<pc, err>>
       ELSE /\ pc' = "aborted"
            /\ err' = "RateLimitError"
            /\ UNCHANGED attempt
    /\ UNCHANGED <<disk, config, server, args, transcripts, processed_ids, embeddings,
                   to_process, i, dimension, provDim, provChanges, runs_left,
                   started, prev, okCalls>>

\* vo.embed raises any other provider error: nothing catches it.
ProviderFails ==
    /\ pc = "embed"
    /\ nCalls' = IF audit THEN nCalls + 1 ELSE nCalls
    /\ RememberCall(FALSE)
    /\ pc' = "aborted"
    /\ err' = "ProviderError"
    /\ UNCHANGED <<disk, config, server, args, transcripts, memory, provDim,
                   provChanges, runs_left, started, prev, rlBatches, okCalls>>

\* save_checkpoint, first half: open(CHECKPOINT_FILE, "w") (embed.py:87).
SaveOpen ==
    /\ pc = "save_open"
    /\ CHECKPOINT_FILE' = Partial
    /\ pc' = "save_dump"
    /\ UNCHANGED <<OUTPUT_FILE, config, server, args, transcripts, memory, err,
                   provDim, provChanges, runs_left, started, prev, calls>>

\* A batch loop that steps to the next batch although the dump of the
\* checkpoint has not been written.
SaveDumpDeferred ==
    /\ pc = "save_dump"
    /\ IF i + BATCH_SIZE < Len(to_process)
       THEN /\ i' = i + BATCH_SIZE
            /\ attempt' = 0
            /\ pc' = "embed"
       ELSE /\ pc' = "final_open"
            /\ UNCHANGED <<i, attempt>>
    /\ UNCHANGED <<disk, config, server, args, transcripts, processed_ids,
                   embeddings, to_process, dimension, err, provDim, provChanges,
                   runs_left, started, prev, calls>>

\* save_checkpoint, second half: json.dump and close (embed.py:88-96), then
\* the loop's step to the next batch or out of the loop (embed.py:132, 166).
SaveDump ==
    /\ pc = "save_dump"
    /\ CHECKPOINT_FILE' = CheckpointDoc(processed_ids, embeddings, args.model, dimension)
    /\ IF i + BATCH_SIZE < Len(to_process)
       THEN /\ i' = i + BATCH_SIZE
            /\ attempt' = 0
            /\ pc' = "embed"
       ELSE /\ pc' = "final_open"
            /\ UNCHANGED <<i, attempt>>
    /\ UNCHANGED <<OUTPUT_FILE, config, server, args, transcripts, processed_ids,
                   embeddings, to_process, dimension, err, provDim, provChanges,
                   runs_left, started, prev, calls>>

\* open(OUTPUT_FILE, "w") (embed.py:177).
FinalOpen ==
    /\ pc = "final_open"
    /\ OUTPUT_FILE' = Partial
    /\ pc' = "final_dump"
    /\ UNCHANGED <<CHECKPOINT_FILE, config, server, args, transcripts, memory, err,
                   provDim, provChanges, runs_left, started, prev, calls>>

\* json.dump(output, f) and close (embed.py:170-178).
FinalDump ==
    /\ pc = "final_dump"
    /\ OUTPUT_FILE' = OutputDoc(embeddings, args.model, dimension)
    /\ pc' = "cleanup"
    /\ UNCHANGED <<CHECKPOINT_FILE, config, server, args, transcripts, memory, err,
                   provDim, provChanges, runs_left, started, prev, calls>>

\* Clean up checkpoint (embed.py:181-184).
Cleanup ==
    /\ pc = "cleanup"
    /\ CHECKPOINT_FILE' = IF CHECKPOINT_FILE.kind # "absent" THEN Absent ELSE CHECKPOINT_FILE
    /\ pc' = "done"
    /\ UNCHANGED <<OUTPUT_FILE, config, server, args, transcripts, memory, err,
                   provDim, provChanges, runs_left, started, prev, calls>>

\* The process is killed (SIGINT, SIGKILL, power loss): its memory is gone,
\* the files stay as they are.
Interrupt ==
    /\ ~Stopped
    /\ pc' = "interrupted"
    /\ processed_ids' = {}
    /\ embeddings' = EmptyMap
    /\ to_process' = << >>
    /\ i' = 0
    /\ attempt' = 0
    /\ dimension' = None
    /\ ClearCalls
    /\ UNCHANGED <<disk, config, server, args, transcripts, err, provDim,
                   provChanges, runs_left, started, prev>>

\* The provider starts returning vectors of another length (its model changed).
ProviderChange ==
    /\ provChanges < MaxProvChanges
    /\ provChanges' = provChanges + 1
    /\ provDim' \in Dims \ {provDim}
    /\ UNCHANGED <<disk, config, server, pc, args, transcripts, memory, err,
                   runs_left, started, prev, calls>>

\* ------------------------------------------------ values of the server

\* bool(x) of an Optional[str]: None and "" are falsy (main.py:269-279).
Truthy(x) == x.some /\ x.text # << >>

\* dict.get(key, default) of a str field (main.py:273, 278).
Get(x, default) == IF x.some THEN x.text ELSE default

UpperLetters == <<"A", "B", "C", "D", "E", "F", "G", "H", "I", "J", "K", "L", "M",
                  "N", "O", "P", "Q", "R", "S", "T", "U", "V", "W", "X", "Y", "Z">>
LowerLetters == <<"a", "b", "c", "d", "e", "f", "g", "h", "i", "j", "k", "l", "m",
                  "n", "o", "p", "q", "r", "s", "t", "u", "v", "w", "x", "y", "z">>

\* str.lower() (main.py:273, 278).
Lower(t) ==
    [k \in 1..Len(t) |->
        IF \E n \in 1..Len(UpperLetters) : UpperLetters[n] = t[k]
        THEN LowerLetters[CHOOSE n \in 1..Len(UpperLetters) : UpperLetters[n] = t[k]]
        ELSE t[k]]

\* sub in t, for two str (main.py:278).
Contains(sub, t) ==
    \E start \in 0..(Len(t) - Len(sub)) :
        SubSeq(t, start + 1, start + Len(sub)) = sub

UNKNOWN == <<"U", "N", "K", "N", "O", "W", "N">>

\* Filters that compare the industry for equality, not containment.
PassesWholeIndustry(transcript, req) ==
    /\ ~(Truthy(req.split) /\ transcript.split # req.split.text)
    /\ ~(Truthy(req.sentiment)
           /\ Lower(Get(transcript.sentiment, << >>)) # Lower(req.sentiment.text))
    /\ ~(Truthy(req.industry)
           /\ Lower(req.industry.text) # Lower(Get(transcript.industry, << >>)))

\* The filters of the scoring loop (main.py:264-280): TRUE when the loop
\* does not `continue` for this record.
Passes(transcript, req) ==
    /\ ~(Truthy(req.split) /\ transcript.split # req.split.text)
    /\ ~(Truthy(req.sentiment)
           /\ Lower(Get(transcript.sentiment, << >>)) # Lower(req.sentiment.text))
    /\ ~(Truthy(req.industry)
           /\ ~Contains(Lower(req.industry.text),
                        Lower(Get(transcript.industry, << >>))))

\* ------------------------------------------------------------- the scores
RECURSIVE DotUpTo(_, _, _)
DotUpTo(a, b, n) == IF n = 0 THEN 0 ELSE DotUpTo(a, b, n - 1) + a[n] * b[n]

\* np.dot of two vectors of one length.
Dot(a, b) == DotUpTo(a, b, Len(a))

\* A float score: NaN, or the number dot / sqrt(nn) with nn > 0.
NaN == [nan |-> TRUE, dot |-> 0, nn |-> 0]

\* cosine_similarity (main.py:39-43) of two vectors of one length: the
\* division 0.0 / 0.0 of two numpy floats yields nan.  (For vectors of
\* different lengths np.dot raises ValueError, see Misaligned.)
cosine_similarity(a, b) ==
    IF Dot(a, a) * Dot(b, b) = 0
    THEN NaN
    ELSE [nan |-> FALSE, dot |-> Dot(a, b), nn |-> Dot(a, a) * Dot(b, b)]

Sign(n) == IF n < 0 THEN 0 - 1 ELSE IF n > 0 THEN 1 ELSE 0

\* x < y for two float scores: every comparison with nan is False.
Lt(x, y) ==
    /\ ~x.nan
    /\ ~y.nan
    /\ Sign(x.dot) * x.dot * x.dot * y.nn < Sign(y.dot) * y.dot * y.dot * x.nn

\* x == y for two float scores.
Eq(x, y) == ~x.nan /\ ~y.nan /\ ~Lt(x, y) /\ ~Lt(y, x)

RECURSIVE LargestFitting(_, _, _, _)
\* The largest k in lo..hi with k - 1/2 <= 10^4 * d / sqrt(nn), for d >= 0.
LargestFitting(lo, hi, d, nn) ==
    IF lo = hi
    THEN lo
    ELSE LET mid == (lo + hi + 1) \div 2
         IN  IF (2 * mid - 1) * (2 * mid - 1) * nn <= 400000000 * d * d
             THEN LargestFitting(mid, hi, d, nn)
             ELSE LargestFitting(lo, mid - 1, d, nn)

\* round(score, 4) (main.py:311), in units of 0.0001; round(nan, 4) is nan.
round4(x) ==
    IF x.nan
    THEN [nan |-> TRUE, e4 |-> 0]
    ELSE [nan |-> FALSE,
          e4 |-> Sign(x.dot) * LargestFitting(0, 10000, Sign(x.dot) * x.dot, x.nn)]

Reverse(seq) == [k \in 1..Len(seq) |-> seq[Len(seq) + 1 - k]]

\* One step of a stable insertion sort on the score: x moves left past the
\* elements it is less than.
Insert(sorted, x) ==
    LET p == CHOOSE p \in 0..Len(sorted) :
                /\ \A q \in (p + 1)..Len(sorted) : Lt(x.score, sorted[q].score)
                /\ p = 0 \/ ~Lt(x.score, sorted[p].score)
    IN  SubSeq(sorted, 1, p) \o <<x>> \o SubSeq(sorted, p + 1, Len(sorted))

RECURSIVE SortUpTo(_, _)
SortUpTo(seq, n) == IF n = 0 THEN << >> ELSE Insert(SortUpTo(seq, n - 1), seq[n])

\* list.sort(key=lambda x: x[1], reverse=True) (main.py:286): the list is
\* reversed, sorted stably in ascending order of the key, and reversed
\* again, so that elements with equal keys keep their order.
sort_reverse(seq) == Reverse(SortUpTo(Reverse(seq), Len(seq)))

\* The records the scoring loop does not skip (main.py:263-280), in the
\* order of embeddings_data.items().
Kept(order, data, req) ==
    SelectSeq(order, LAMBDA tid : tid \in DOMAIN data /\ Passes(data[tid], req))

\* np.dot raises ValueError for two vectors of different lengths: TRUE
\* when the scoring loop reaches such a pair (main.py:282).
Misaligned(order, data, emb, req, query_embedding) ==
    \E k \in 1..Len(Kept(order, data, req)) :
        Len(emb[Kept(order, data, req)[k]]) # Len(query_embedding)

\* The list scores after the loop (main.py:262-283).
Scored(order, data, emb, req, query_embedding) ==
    [k \in 1..Len(Kept(order, data, req)) |->
        [tid |-> Kept(order, data, req)[k],
         score |-> cosine_similarity(query_embedding, emb[Kept(order, data, req)[k]])]]

\* The list scores after the sort (main.py:286).
Ranked(order, data, emb, req, query_embedding) ==
    sort_reverse(Scored(order, data, emb, req, query_embedding))

\* The slice off by one element.
PaginateFromNext(scores, offset, limit) ==
    SubSeq(scores, offset + 2, Min(offset + 1 + limit, Len(scores)))

\* scores[offset : offset + limit] for offset >= 0 and limit >= 0
\* (main.py:290).
Paginate(scores, offset, limit) ==
    SubSeq(scores, offset + 1, Min(offset + limit, Len(scores)))

\* transcript.get("messages", []) (main.py:296).
Messages(transcript) ==
    IF "messages" \in DOMAIN transcript THEN transcript.messages ELSE << >>

RECURSIVE PartsFrom(_, _, _, _)
\* The loop over the messages from message k on (main.py:299-303), with
\* the parts and the character count so far.
PartsFrom(messages, k, snippet_parts, char_count) ==
    IF k > Len(messages) \/ char_count > 200
    THEN snippet_parts
    ELSE LET part == SubSeq(messages[k].content, 1, Min(100, Len(messages[k].content)))
         IN  PartsFrom(messages, k + 1, Append(snippet_parts, part),
                       char_count + Len(part))

\* snippet_parts after the loop (main.py:297-303).
Parts(messages) == PartsFrom(messages, 1, << >>, 0)

RECURSIVE JoinUpTo(_, _, _)
JoinUpTo(sep, parts, n) ==
    IF n = 0 THEN << >>
    ELSE IF n = 1 THEN parts[1]
    ELSE JoinUpTo(sep, parts, n - 1) \o sep \o parts[n]

\* " ... ".join(snippet_parts) (main.py:304).
Joined(parts) == JoinUpTo(<<" ", ".", ".", ".", " ">>, parts, Len(parts))

\* The snippet of a result (main.py:296-306).
Snippet(messages) ==
    LET snippet == SubSeq(Joined(Parts(messages)), 1,
                          Min(250, Len(Joined(Parts(messages)))))
    IN  IF Len(snippet) = 250 THEN snippet \o <<".", ".", ".">> ELSE snippet

\* One element of results (main.py:308-318).
Result(entry, transcript) ==
    [transcript_id |-> entry.tid,
     score |-> round4(entry.score),
     split |-> transcript.split,
     industry |-> transcript.industry,
     sentiment |-> transcript.sentiment,
     snippet |-> Snippet(Messages(transcript))]

\* ------------------------------------------------------------- the server
\* The IDs of a set in ascending order: sorted(keys) (main.py:63).
Ascending(ids) ==
    [k \in 1..Cardinality(ids) |->
        CHOOSE id \in ids : Cardinality({other \in ids : other < id}) = k - 1]

\* The list of floats the server reads for a vector the builder stored
\* (main.py:70): the builder keeps the length of a vector, not its
\* coordinates, which are all 1 here.
Numbers(vec) == [k \in 1..vec.len |-> 1]

\* Start-up of the serving process: lifespan (main.py:46-80).  The module
\* globals start as {} / [] / "" / 0 (main.py:22-26); a missing
\* transcripts.json or an unreadable store ends the process.
\* The builder writes the store's keys in the order of its input file,
\* which is ascending here (ids 1..n).
lifespan ==
    /\ IF DATA_FILE.kind = "json" /\ OUTPUT_FILE.kind = "json"
       THEN /\ server_up' = TRUE
            /\ embeddings_data' = [id \in DOMAIN OUTPUT_FILE.embeddings |->
                                      Numbers(OUTPUT_FILE.embeddings[id])]
            /\ embedding_model' = OUTPUT_FILE.model
            /\ embedding_dimension' = OUTPUT_FILE.dimension
            /\ embeddings_order' = Ascending(DOMAIN OUTPUT_FILE.embeddings)
       ELSE /\ server_up' = (DATA_FILE.kind = "json" /\ OUTPUT_FILE.kind = "absent")
            /\ embeddings_data' = EmptyMap
            /\ embedding_model' = ""
            /\ embedding_dimension' = 0
            /\ embeddings_order' = << >>
    /\ transcripts_data' = IF server_up' THEN DATA_FILE.transcripts ELSE EmptyMap
    /\ transcript_ids' = Ascending(DOMAIN transcripts_data')
    /\ UNCHANGED <<disk, config, exchange, pc, args, transcripts, memory,
                   err, provDim, provChanges, runs_left, started, prev, calls>>

Next ==
    \/ \E resume \in BOOLEAN, model \in Models, limit \in Limits :
          StartRun(resume, model, limit)
    \/ EmbedBatch
    \/ RateLimited
    \/ ProviderFails
    \/ SaveOpen
    \/ SaveDump
    \/ FinalOpen
    \/ FinalDump
    \/ Cleanup
    \/ Interrupt
    \/ ProviderChange

Spec == Init /\ [][Next]_vars

\* The builder together with (re)starts of the serving process.
InitServe ==
    /\ InitCommon
    /\ INPUT_FILE \in 0..MaxRecords
    /\ DATA_FILE = Records(INPUT_FILE)
    /\ BATCH_SIZE \in 1..MaxBatch
    /\ runs_left = 1
    /\ audit = FALSE

NextServe ==
    \/ Next
    \/ lifespan

SpecServe == InitServe /\ [][NextServe]_vars

\* The builder with the history of its runs recorded.
InitResume ==
    /\ InitCommon
    /\ INPUT_FILE \in 0..MaxRecords
    /\ DATA_FILE = Records(INPUT_FILE)
    /\ BATCH_SIZE \in 1..MaxBatch
    /\ runs_left = MaxRuns
    /\ audit = TRUE

SpecResume == InitResume /\ [][Next]_vars

\* One run over five records in batches of two, its provider calls recorded.
InitScenario ==
    /\ InitCommon
    /\ INPUT_FILE = 5
    /\ DATA_FILE = Records(INPUT_FILE)
    /\ BATCH_SIZE = 2
    /\ runs_left = 1
    /\ audit = TRUE

SpecScenario == InitScenario /\ [][Next]_vars

\* ------------------------------------------------------------ the handlers
\* raise HTTPException(status_code, detail).
HTTPError(endpoint, status_code, detail) ==
    [endpoint |-> endpoint, status_code |-> status_code, raised |-> "HTTPException",
     detail |-> detail, total |-> 0, offset |-> 0, limit |-> 0, results |-> << >>]

\* An exception the handler does not catch: the framework answers 500.
Unhandled(endpoint, exception) ==
    [endpoint |-> endpoint, status_code |-> 500, raised |-> exception,
     detail |-> "", total |-> 0, offset |-> 0, limit |-> 0, results |-> << >>]

\* A query embedded in document mode.
QueryCallAsDocument(req, answer) ==
    [made |-> TRUE, texts |-> <<req.query>>, model |-> embedding_model,
     input_type |-> "document", ok |-> answer.ok, embedding |-> answer.embedding]

\* vo.embed(texts=[request.query], model=embedding_model,
\* input_type="query") (main.py:256-259) and what the provider did with it.
QueryCall(req, answer) ==
    [made |-> TRUE, texts |-> <<req.query>>, model |-> embedding_model,
     input_type |-> "query", ok |-> answer.ok, embedding |-> answer.embedding]

\* The dict a handler returns.
Returned(endpoint, total, offset, limit, results) ==
    [endpoint |-> endpoint, status_code |-> 200, raised |-> "", detail |-> "",
     total |-> total, offset |-> offset, limit |-> limit, results |-> results]

\* A search that never answers 503.
UnavailableNever == FALSE

\* not embeddings_data (main.py:250).
Unavailable == DOMAIN embeddings_data = {}

\* A total that counts the page.
SearchReturnsPageCount(req, query_embedding) ==
    LET scores == Ranked(embeddings_order, transcripts_data, embeddings_data,
                         req, query_embedding)
        paginated == Paginate(scores, req.offset, req.limit)
    IN  Returned("search", Len(paginated), req.offset, req.limit,
                 [k \in 1..Len(paginated) |->
                     Result(paginated[k], transcripts_data[paginated[k].tid])])

\* What search_transcripts returns once the query is embedded and every
\* candidate is scored (main.py:285-326).
SearchReturns(req, query_embedding) ==
    LET scores == Ranked(embeddings_order, transcripts_data, embeddings_data,
                         req, query_embedding)
        paginated == Paginate(scores, req.offset, req.limit)
    IN  Returned("search", Len(scores), req.offset, req.limit,
                 [k \in 1..Len(paginated) |->
                     Result(paginated[k], transcripts_data[paginated[k].tid])])

\* One request fewer to come, and the history of the request before this
\* one.
Remember ==
    /\ requests_left' = requests_left - 1
    /\ previous_search' = IF audit
                          THEN [request |-> request, vo_call |-> vo_call,
                                response |-> response]
                          ELSE previous_search

\* POST /api/search (main.py:247-326).  answer is what the provider does
\* with the one call vo.embed(texts=[query], model, input_type="query"):
\* it returns a vector or raises.
search_transcripts(req, answer) ==
    /\ server_up
    /\ requests_left > 0
    /\ request' = req
    /\ IF Unavailable
       THEN /\ vo_call' = NoCall
            /\ response' = HTTPError("search", 503,
                                     "Search not available - embeddings not loaded")
       ELSE /\ vo_call' = QueryCall(req, answer)
            /\ response' =
                 IF ~answer.ok
                 THEN Unhandled("search", "ProviderError")
                 ELSE IF Misaligned(embeddings_order, transcripts_data,
                                    embeddings_data, req, answer.embedding)
                 THEN Unhandled("search", "ValueError")
                 ELSE SearchReturns(req, answer.embedding)
    /\ Remember
    /\ UNCHANGED <<disk, config, store, records, pc, args, transcripts, memory,
                   err, provDim, provChanges, runs_left, started, prev, calls>>

\* One element of the list of GET /api/transcripts (main.py:91-100).
Listed(tid, transcript) ==
    [transcript_id |-> tid, split |-> transcript.split,
     industry |-> transcript.industry, sentiment |-> transcript.sentiment]

\* GET /api/transcripts (main.py:84-101); split is None or a str.
list_transcripts(split) ==
    /\ server_up
    /\ requests_left > 0
    /\ request' = [endpoint |-> "list", split |-> split]
    /\ vo_call' = NoCall
    /\ LET results == SelectSeq(transcript_ids,
                                LAMBDA tid : \/ ~split.some
                                             \/ transcripts_data[tid].split = split.text)
       IN  response' = Returned("list", Len(results), 0, 0,
                                [k \in 1..Len(results) |->
                                    Listed(results[k], transcripts_data[results[k]])])
    /\ Remember
    /\ UNCHANGED <<disk, config, store, records, pc, args, transcripts, memory,
                   err, provDim, provChanges, runs_left, started, prev, calls>>

\* A Python list of str, each str a sequence of characters.
PyList(items) == [some |-> TRUE, list |-> items]

\* dict.get(key): the value of the key, or None.
Field(t, key) == IF key \in DOMAIN t THEN t[key] ELSE NoText

\* What `for x in value` yields: the elements of a list, the characters of
\* a str (each a str of length one), nothing for an empty value.
Iter(value) ==
    IF "list" \in DOMAIN value
    THEN value.list
    ELSE [k \in 1..Len(value.text) |-> <<value.text[k]>>]

\* bool(value) of a list, a str or None.
TruthyValue(value) == value.some /\ Iter(value) # << >>

\* a or b.
Or(a, b) == IF TruthyValue(a) THEN a ELSE b

\* t.get(key, []) (main.py:157, 165).
GetList(t, key) == IF key \in DOMAIN t THEN t[key] ELSE PyList(<< >>)

\* The elements the counting loops of get_summary count for one transcript
\* (main.py:157-160, 165-168): `if case and case != "UNKNOWN"`.
Counted(t, normalized, raw) ==
    SelectSeq(Iter(Or(Field(t, normalized), GetList(t, raw))),
              LAMBDA case : case # << >> /\ case # UNKNOWN)

Occurrences(seq, x) == Cardinality({k \in 1..Len(seq) : seq[k] = x})

RECURSIVE SumOver(_, _)
SumOver(f, keys) ==
    IF keys = {}
    THEN 0
    ELSE LET k == CHOOSE k \in keys : TRUE
         IN  f[k] + SumOver(f, keys \ {k})

\* The Counter after the loop over list(transcripts_data.values())
\* (main.py:154-168): name -> number of times it was counted.
CategoryCounts(data, normalized, raw) ==
    LET names == UNION {Range(Counted(data[tid], normalized, raw)) : tid \in DOMAIN data}
    IN  [name \in names |->
            SumOver([tid \in DOMAIN data |->
                        Occurrences(Counted(data[tid], normalized, raw), name)],
                    DOMAIN data)]

\* Counter.most_common(10) (main.py:218-225) as name -> count; the order
\* of the list is left out.  Among equal counts the Counter keeps the
\* names counted first; here any of them.
most_common(counter, n) ==
    IF Cardinality(DOMAIN counter) <= n
    THEN counter
    ELSE LET top == CHOOSE top \in SUBSET DOMAIN counter :
                        /\ Cardinality(top) = n
                        /\ \A in \in top, out \in DOMAIN counter \ top :
                              counter[in] >= counter[out]
         IN  [name \in top |-> counter[name]]

\* GET /api/summary (main.py:112-233): total_transcripts, top_use_cases and
\* top_pain_points of the returned dict; its other aggregates are read from
\* the records in the same way and are left out.
get_summary ==
    /\ server_up
    /\ requests_left > 0
    /\ request' = [endpoint |-> "summary"]
    /\ vo_call' = NoCall
    /\ response' = Returned("summary", Cardinality(DOMAIN transcripts_data), 0, 0,
                            <<[top_use_cases |->
                                  most_common(CategoryCounts(transcripts_data,
                                                             "use_case_categories",
                                                             "primary_use_cases"), 10),
                               top_pain_points |->
                                  most_common(CategoryCounts(transcripts_data,
                                                             "pain_point_categories",
                                                             "key_pain_points"), 10)]>>)
    /\ Remember
    /\ UNCHANGED <<disk, config, store, records, pc, args, transcripts, memory,
                   err, provDim, provChanges, runs_left, started, prev, calls>>

\* A handler that takes the record out of the mapping it serves it from.
get_transcript_popped(transcript_id) ==
    /\ server_up
    /\ requests_left > 0
    /\ request' = [endpoint |-> "get", transcript_id |-> transcript_id]
    /\ vo_call' = NoCall
    /\ response' = IF transcript_id \notin DOMAIN transcripts_data
                   THEN HTTPError("get", 404, "Transcript not found")
                   ELSE Returned("get", 0, 0, 0, <<transcripts_data[transcript_id]>>)
    /\ transcripts_data' = [tid \in DOMAIN transcripts_data \ {transcript_id} |->
                               transcripts_data[tid]]
    /\ Remember
    /\ UNCHANGED <<disk, config, store, transcript_ids, pc, args, transcripts, memory,
                   err, provDim, provChanges, runs_left, started, prev, calls>>

\* GET /api/transcript/{transcript_id} (main.py:104-109).
get_transcript(transcript_id) ==
    /\ server_up
    /\ requests_left > 0
    /\ request' = [endpoint |-> "get", transcript_id |-> transcript_id]
    /\ vo_call' = NoCall
    /\ response' = IF transcript_id \notin DOMAIN transcripts_data
                   THEN HTTPError("get", 404, "Transcript not found")
                   ELSE Returned("get", 0, 0, 0, <<transcripts_data[transcript_id]>>)
    /\ Remember
    /\ UNCHANGED <<disk, config, store, records, pc, args, transcripts, memory,
                   err, provDim, provChanges, runs_left, started, prev, calls>>

\* ------------------------------------------------- the extraction job
\* (i + 1) % 10 == 0 (extract.py:172): the loop saves after every tenth item.
CheckpointEvery == 10

\* What the other processes leave alone while the extraction job runs.
ExtractionOnly ==
    UNCHANGED <<disk, INPUT_FILE, BATCH_SIZE, audit, server, pc, args, transcripts,
                memory, err, provDim, provChanges, runs_left, started, prev, calls>>

\* python extract.py [--resume] without --limit, up to the loop
\* (extract.py:122-150).  all_items is the dataset sorted by transcript_id:
\* the IDs 1..MaxItems.  json.load of a file that was not completely written
\* raises and ends the run.
extract_start(resume) ==
    /\ extract_pc \in {"idle", "done", "failed"}
    /\ extract_runs_left > 0
    /\ extract_runs_left' = extract_runs_left - 1
    /\ extract_args' = [resume |-> resume]
    /\ extract_i' = 0
    /\ IF resume /\ (EXTRACT_CHECKPOINT_FILE.kind = "partial" \/ DATA_FILE.kind = "partial")
       THEN /\ extract_pc' = "failed"
            /\ extract_processed_ids' = {}
            /\ extract_transcripts_data' = EmptyMap
            /\ extract_loaded' = {}
       ELSE /\ extract_pc' = "loop"
            /\ extract_processed_ids' = IF resume THEN EXTRACT_CHECKPOINT_FILE.ids ELSE {}
            /\ extract_transcripts_data' = IF resume THEN DATA_FILE.transcripts ELSE EmptyMap
            /\ extract_loaded' = extract_processed_ids'
    /\ UNCHANGED <<EXTRACT_CHECKPOINT_FILE, DATA_FILE, extract_failures_left>>
    /\ ExtractionOnly

\* `if transcript_id in processed_ids: continue` (extract.py:155-156).
extract_skip ==
    /\ extract_pc = "loop"
    /\ extract_i < MaxItems
    /\ extract_i + 1 \in extract_processed_ids
    /\ extract_i' = extract_i + 1
    /\ UNCHANGED <<EXTRACT_CHECKPOINT_FILE, DATA_FILE, extract_pc, extract_args,
                   extract_processed_ids, extract_transcripts_data, extract_loaded,
                   extract_runs_left, extract_failures_left>>
    /\ ExtractionOnly

\* One iteration whose extraction succeeds (extract.py:160-172): the record
\* is stored and its ID marked; every tenth item is followed by a save.
extract_item ==
    /\ extract_pc = "loop"
    /\ extract_i < MaxItems
    /\ extract_i + 1 \notin extract_processed_ids
    /\ extract_transcripts_data' =
          [tid \in DOMAIN extract_transcripts_data \cup {extract_i + 1} |->
              IF tid = extract_i + 1
              THEN PlainRecord(tid)
              ELSE extract_transcripts_data[tid]]
    /\ extract_processed_ids' = extract_processed_ids \cup {extract_i + 1}
    /\ IF (extract_i + 1) % CheckpointEvery = 0
       THEN extract_pc' = "save_checkpoint" /\ extract_i' = extract_i
       ELSE extract_pc' = "loop" /\ extract_i' = extract_i + 1
    /\ UNCHANGED <<EXTRACT_CHECKPOINT_FILE, DATA_FILE, extract_args, extract_loaded,
                   extract_runs_left, extract_failures_left>>
    /\ ExtractionOnly

\* One iteration whose extraction raises (extract.py:160-161, 179-181).
extract_fails ==
    /\ extract_pc = "loop"
    /\ extract_i < MaxItems
    /\ extract_i + 1 \notin extract_processed_ids
    /\ extract_failures_left > 0
    /\ extract_failures_left' = extract_failures_left - 1
    /\ extract_i' = extract_i + 1
    /\ UNCHANGED <<EXTRACT_CHECKPOINT_FILE, DATA_FILE, extract_pc, extract_args,
                   extract_processed_ids, extract_transcripts_data, extract_loaded,
                   extract_runs_left>>
    /\ ExtractionOnly

\* save_checkpoint (extract.py:107-110, 173): open(CHECKPOINT_FILE, "w") ...
checkpoint_open ==
    /\ extract_pc = "save_checkpoint"
    /\ EXTRACT_CHECKPOINT_FILE' = PartialIds
    /\ extract_pc' = "checkpoint_dump"
    /\ UNCHANGED <<DATA_FILE, extract_args, extract_i, extract_processed_ids,
                   extract_transcripts_data, extract_loaded, extract_runs_left,
                   extract_failures_left>>
    /\ ExtractionOnly

\* ... and json.dump(list(processed_ids), f).
checkpoint_dump ==
    /\ extract_pc = "checkpoint_dump"
    /\ EXTRACT_CHECKPOINT_FILE' = IdsDoc(extract_processed_ids)
    /\ extract_pc' = "output_open"
    /\ UNCHANGED <<DATA_FILE, extract_args, extract_i, extract_processed_ids,
                   extract_transcripts_data, extract_loaded, extract_runs_left,
                   extract_failures_left>>
    /\ ExtractionOnly

\* The periodic write of the output (extract.py:174-176): open(OUTPUT_FILE, "w") ...
output_open ==
    /\ extract_pc = "output_open"
    /\ DATA_FILE' = PartialData
    /\ extract_pc' = "output_dump"
    /\ UNCHANGED <<EXTRACT_CHECKPOINT_FILE, extract_args, extract_i,
                   extract_processed_ids, extract_transcripts_data, extract_loaded,
                   extract_runs_left, extract_failures_left>>
    /\ ExtractionOnly

\* ... and json.dump(output, f); the loop goes on.
output_dump ==
    /\ extract_pc = "output_dump"
    /\ DATA_FILE' = DataDoc(extract_transcripts_data)
    /\ extract_pc' = "loop"
    /\ extract_i' = extract_i + 1
    /\ UNCHANGED <<EXTRACT_CHECKPOINT_FILE, extract_args, extract_processed_ids,
                   extract_transcripts_data, extract_loaded, extract_runs_left,
                   extract_failures_left>>
    /\ ExtractionOnly

\* After the loop (extract.py:183-185): open(OUTPUT_FILE, "w") ...
final_open ==
    /\ extract_pc = "loop"
    /\ extract_i = MaxItems
    /\ DATA_FILE' = PartialData
    /\ extract_pc' = "final_dump"
    /\ UNCHANGED <<EXTRACT_CHECKPOINT_FILE, extract_args, extract_i,
                   extract_processed_ids, extract_transcripts_data, extract_loaded,
                   extract_runs_left, extract_failures_left>>
    /\ ExtractionOnly

\* ... and json.dump(output, f).
final_dump ==
    /\ extract_pc = "final_dump"
    /\ DATA_FILE' = DataDoc(extract_transcripts_data)
    /\ extract_pc' = "unlink"
    /\ UNCHANGED <<EXTRACT_CHECKPOINT_FILE, extract_args, extract_i,
                   extract_processed_ids, extract_transcripts_data, extract_loaded,
                   extract_runs_left, extract_failures_left>>
    /\ ExtractionOnly

\* CHECKPOINT_FILE.unlink() when it exists (extract.py:187-188); the run
\* is complete.
checkpoint_unlink ==
    /\ extract_pc = "unlink"
    /\ EXTRACT_CHECKPOINT_FILE' = NoIds
    /\ extract_pc' = "done"
    /\ UNCHANGED <<DATA_FILE, extract_args, extract_i, extract_processed_ids,
                   extract_transcripts_data, extract_loaded, extract_runs_left,
                   extract_failures_left>>
    /\ ExtractionOnly

\* The process is killed (Ctrl-C, a crash of the machine) at any point of a
\* run; what it wrote stays on disk.
extract_interrupt ==
    /\ extract_pc \notin {"idle", "done", "failed"}
    /\ extract_pc' = "idle"
    /\ UNCHANGED <<EXTRACT_CHECKPOINT_FILE, DATA_FILE, extract_args, extract_i,
                   extract_processed_ids, extract_transcripts_data, extract_loaded,
                   extract_runs_left, extract_failures_left>>
    /\ ExtractionOnly

\* Runs of the extraction job over a dataset of MaxItems transcripts, before
\* the builder and the server have started.
InitExtract ==
    /\ BuilderIdle
    /\ INPUT_FILE = 0
    /\ BATCH_SIZE = 1
    /\ runs_left = 0
    /\ audit = FALSE
    /\ provDim = 2
    /\ OUTPUT_FILE = Absent
    /\ server_up = FALSE
    /\ embeddings_data = EmptyMap
    /\ embedding_model = ""
    /\ embedding_dimension = 0
    /\ embeddings_order = << >>
    /\ transcripts_data = EmptyMap
    /\ transcript_ids = << >>
    /\ NoExchange
    /\ requests_left = 0
    /\ DATA_FILE = NoData
    /\ ExtractIdle
    /\ extract_runs_left = MaxRuns
    /\ extract_failures_left = MaxFailures

NextExtract ==
    \/ \E resume \in BOOLEAN : extract_start(resume)
    \/ extract_skip
    \/ extract_item
    \/ extract_fails
    \/ checkpoint_open
    \/ checkpoint_dump
    \/ output_open
    \/ output_dump
    \/ final_open
    \/ final_dump
    \/ checkpoint_unlink
    \/ extract_interrupt

SpecExtract == InitExtract /\ [][NextExtract]_vars

\* ------------------------------------------------ the normalization job
Other == <<"O", "t", "h", "e", "r">>

\* t[key] = value.
SetField(t, key, value) ==
    [k \in DOMAIN t \cup {key} |-> IF k = key THEN value ELSE t[k]]

\* `not val or val == "UNKNOWN"` (normalize.py:114, 188).
IsUnknown(val) == ~TruthyValue(val) \/ val = Str(UNKNOWN)

\* get_unique_values(transcripts, field, is_list=True)
\* (normalize.py:110-123), as a set.
get_unique_values(data, field) ==
    UNION {LET val == Field(data[tid], field)
           IN  IF IsUnknown(val)
               THEN {}
               ELSE IF "list" \in DOMAIN val
                    THEN {item \in Range(val.list) : item # << >> /\ item # UNKNOWN}
                    ELSE {val.text} :
           tid \in DOMAIN data}

\* The loop of normalize.py:192-197 over val[1..k].
RECURSIVE MappedUpTo(_, _, _)
MappedUpTo(val, mapping, k) ==
    IF k = 0
    THEN << >>
    ELSE LET normalized == MappedUpTo(val, mapping, k - 1)
             item == val[k]
         IN  IF item # << >> /\ item \in DOMAIN mapping
             THEN Append(normalized, mapping[item])
             ELSE IF item # << >>
                  THEN Append(normalized, Other)
                  ELSE normalized

\* [x for x in normalized if not (x in seen or seen.add(x))]
\* (normalize.py:199-200) over normalized[1..k].
RECURSIVE DedupUpTo(_, _)
DedupUpTo(normalized, k) ==
    IF k = 0
    THEN << >>
    ELSE LET kept == DedupUpTo(normalized, k - 1)
         IN  IF normalized[k] \in Range(kept) THEN kept ELSE Append(kept, normalized[k])

\* apply_normalization(transcripts, field, mapping, new_field, is_list=True)
\* (normalize.py:177-202).
apply_normalization(data, field, mapping, new_field) ==
    [tid \in DOMAIN data |->
        LET t == data[tid]
            val == Field(t, field)
            normalized == MappedUpTo(val.list, mapping, Len(val.list))
        IN  IF IsUnknown(val)
            THEN SetField(t, new_field, Str(UNKNOWN))
            ELSE IF "list" \in DOMAIN val
                 THEN SetField(t, new_field,
                               PyList(DedupUpTo(normalized, Len(normalized))))
                 ELSE SetField(t, new_field,
                               Str(IF val.text \in DOMAIN mapping
                                   THEN mapping[val.text]
                                   ELSE Other))]

\* One field of the loop of normalize.py:251-271: a field without values is
\* skipped, the others get the mapping the model returned.
NormalizeField(data, field, mapping, new_field) ==
    IF get_unique_values(data, field) = {}
    THEN data
    ELSE apply_normalization(data, field, mapping, new_field)

\* python normalize.py (normalize.py:205-276) for its two list fields; the
\* two str fields (industry, job_title) get their new fields in the same
\* way.  The mappings are what normalize_with_claude returned.
normalize_main(use_case_mapping, pain_point_mapping) ==
    /\ DATA_FILE.kind = "json"
    /\ pc = "idle"
    /\ ~server_up
    /\ DATA_FILE' =
          DataDoc(NormalizeField(NormalizeField(DATA_FILE.transcripts,
                                                "primary_use_cases", use_case_mapping,
                                                "use_case_categories"),
                                 "key_pain_points", pain_point_mapping,
                                 "pain_point_categories"))
    /\ UNCHANGED <<disk, INPUT_FILE, BATCH_SIZE, audit, extraction, server, pc, args,
                   transcripts, memory, err, provDim, provChanges, runs_left, started,
                   prev, calls>>

\* ------------------------------------------------- the serving process
\* Inputs of the serving process: the vectors of a store of dimension 2,
\* what the provider may do with a query, the records, the requests.
StoreVectors == {<<1, 0>>, <<1, 1>>, <<0, 0>>}

Answers ==
    {[ok |-> TRUE, embedding |-> v] :
        v \in {<<1, 0>>, <<0, 1>>, <<1, 1>>, <<0, 0>>, <<1, 0, 0>>}}
    \cup {[ok |-> FALSE, embedding |-> << >>]}

\* The key orders of a store: the order in which the extraction job and
\* then the builder appended the records (ascending for one extraction
\* run, any order when extraction runs were resumed).
Orders ==
    {Ascending(1..n) : n \in 0..MaxIds} \cup {Reverse(Ascending(1..n)) : n \in 0..MaxIds}

SearchRequest(query, limit, offset, split, sentiment, industry) ==
    [endpoint |-> "search", query |-> query, limit |-> limit, offset |-> offset,
     split |-> split, sentiment |-> sentiment, industry |-> industry]

Requests ==
    {SearchRequest("ai at work", limit, offset, split, NoText, NoText) :
        limit \in 1..MaxLimit, offset \in 0..MaxOffset,
        split \in {NoText, Str(workforce)}}

\* The state after start-up (main.py:46-80) of a server that found a store
\* of dimension 2, or none, and records for some of the IDs.
InitSearch ==
    /\ BuilderIdle
    /\ NoExtraction
    /\ INPUT_FILE = 0
    /\ BATCH_SIZE = 1
    /\ runs_left = 0
    /\ audit = FALSE
    /\ provDim = 2
    /\ server_up = TRUE
    /\ embeddings_order \in Orders
    /\ embeddings_data \in [Range(embeddings_order) -> StoreVectors]
    /\ embedding_model \in IF embeddings_order = << >>
                           THEN {"", "voyage-3"}
                           ELSE {"voyage-3"}
    /\ embedding_dimension = IF embedding_model = "" THEN 0 ELSE 2
    /\ OUTPUT_FILE = IF embedding_model = ""
                     THEN Absent
                     ELSE OutputDoc(embeddings_data, embedding_model,
                                    embedding_dimension)
    /\ transcripts_data \in {[tid \in ids |-> PlainRecord(tid)] :
                                ids \in SUBSET (1..MaxIds)}
    /\ transcript_ids = Ascending(DOMAIN transcripts_data)
    /\ DATA_FILE = DataDoc(transcripts_data)
    /\ NoExchange
    /\ requests_left = 1

NextSearch ==
    \/ \E req \in Requests, answer \in Answers : search_transcripts(req, answer)
    \/ \E split \in {NoText, Str(workforce)} : list_transcripts(split)
    \/ \E transcript_id \in 1..MaxIds : get_transcript(transcript_id)
    \/ get_summary

SpecSearch == InitSearch /\ [][NextSearch]_vars

\* Two searches, one after the other, by a server that has a vector and a
\* record for every ID; the provider answers every query.
InitPaging ==
    /\ BuilderIdle
    /\ NoExtraction
    /\ INPUT_FILE = 0
    /\ BATCH_SIZE = 1
    /\ runs_left = 0
    /\ audit = TRUE
    /\ provDim = 2
    /\ server_up = TRUE
    /\ embeddings_order \in {Ascending(1..MaxIds), Reverse(Ascending(1..MaxIds))}
    /\ embeddings_data \in [1..MaxIds -> StoreVectors]
    /\ embedding_model = "voyage-3"
    /\ embedding_dimension = 2
    /\ OUTPUT_FILE = OutputDoc(embeddings_data, embedding_model, embedding_dimension)
    /\ transcripts_data = [tid \in 1..MaxIds |-> PlainRecord(tid)]
    /\ transcript_ids = Ascending(DOMAIN transcripts_data)
    /\ DATA_FILE = DataDoc(transcripts_data)
    /\ NoExchange
    /\ requests_left = 2

NextPaging ==
    \E req \in Requests, answer \in {a \in Answers : a.embedding \in StoreVectors} :
        search_transcripts(req, answer)

SpecPaging == InitPaging /\ [][NextPaging]_vars

\* One search with filters, by a server that has one vector and one record.
\* The record's sentiment and industry are missing, the sentinel, or a value.
RecordSentiments == {NoText, Str(UNKNOWN), Str(<<"P", "o", "s", "i", "t", "i", "v", "e">>)}
RecordIndustries == {NoText, Str(UNKNOWN), Str(<<"F", "i", "n", "T", "e", "c", "h">>)}

SplitFilters == {NoText, Str(<< >>), Str(workforce), Str(<<"W", "o", "r", "k", "f", "o", "r", "c", "e">>)}
SentimentFilters ==
    {NoText, Str(<< >>), Str(<<"p", "o", "s", "i", "t", "i", "v", "e">>), Str(<<"p", "o", "s">>), Str(<<"u", "n", "k", "n", "o", "w", "n">>)}
IndustryFilters ==
    {NoText, Str(<< >>), Str(<<"t", "e", "c", "h">>), Str(<<"T", "E", "C", "H">>), Str(<<"t", "e", "c", "h", "s">>), Str(<<"k", "n", "o", "w">>)}

FilterRequests ==
    {SearchRequest("ai at work", limit, 0, split, sentiment, industry) :
        limit \in 1..MaxLimit, split \in SplitFilters,
        sentiment \in SentimentFilters, industry \in IndustryFilters}

InitFilter ==
    /\ BuilderIdle
    /\ NoExtraction
    /\ INPUT_FILE = 0
    /\ BATCH_SIZE = 1
    /\ runs_left = 0
    /\ audit = FALSE
    /\ provDim = 2
    /\ server_up = TRUE
    /\ embeddings_order = <<1>>
    /\ embeddings_data = [tid \in {1} |-> <<1, 0>>]
    /\ embedding_model = "voyage-3"
    /\ embedding_dimension = 2
    /\ OUTPUT_FILE = OutputDoc(embeddings_data, embedding_model, embedding_dimension)
    /\ transcripts_data \in
          {[tid \in {1} |-> [transcript_id |-> tid, split |-> split,
                             sentiment |-> sentiment, industry |-> industry]] :
              split \in {workforce, creatives},
              sentiment \in RecordSentiments,
              industry \in RecordIndustries}
    /\ transcript_ids = Ascending(DOMAIN transcripts_data)
    /\ DATA_FILE = DataDoc(transcripts_data)
    /\ NoExchange
    /\ requests_left = 1

NextFilter ==
    \E req \in FilterRequests, answer \in Answers : search_transcripts(req, answer)

SpecFilter == InitFilter /\ [][NextFilter]_vars

\* The pipeline: one run of the builder with its provider calls recorded,
\* (re)starts of the serving process, and one search without filters.  The server of this
\* specification holds no records (lifespan above loads the store only).
InitPipeline ==
    /\ BuilderIdle
    /\ NoExtraction
    /\ OUTPUT_FILE = Absent
    /\ INPUT_FILE \in 0..MaxRecords
    /\ BATCH_SIZE = MaxBatch
    /\ runs_left = 1
    /\ audit = TRUE
    /\ provDim \in Dims
    /\ server_up = FALSE
    /\ embeddings_data = EmptyMap
    /\ embedding_model = ""
    /\ embedding_dimension = 0
    /\ embeddings_order = << >>
    /\ DATA_FILE = Records(INPUT_FILE)
    /\ transcripts_data = EmptyMap
    /\ transcript_ids = << >>
    /\ NoExchange
    /\ requests_left = 1

NextPipeline ==
    \/ Next
    \/ lifespan
    \/ \E answer \in {a \in Answers : a.embedding \in {<<1, 0>>, << >>}} :
          search_transcripts(SearchRequest("ai at work", 1, 0, NoText, NoText, NoText),
                             answer)

SpecPipeline == InitPipeline /\ [][NextPipeline]_vars

\* Three requests of any kind, one after the other, to a server that has
\* a vector and a record for every ID.
InitRequests ==
    /\ BuilderIdle
    /\ NoExtraction
    /\ INPUT_FILE = 0
    /\ BATCH_SIZE = 1
    /\ runs_left = 0
    /\ audit = FALSE
    /\ provDim = 2
    /\ server_up = TRUE
    /\ embeddings_order \in {Ascending(1..MaxIds), Reverse(Ascending(1..MaxIds))}
    /\ embeddings_data \in [1..MaxIds -> {<<1, 0>>, <<1, 1>>}]
    /\ embedding_model = "voyage-3"
    /\ embedding_dimension = 2
    /\ OUTPUT_FILE = OutputDoc(embeddings_data, embedding_model, embedding_dimension)
    /\ transcripts_data = [tid \in 1..MaxIds |-> PlainRecord(tid)]
    /\ transcript_ids = Ascending(DOMAIN transcripts_data)
    /\ DATA_FILE = DataDoc(transcripts_data)
    /\ NoExchange
    /\ requests_left = 3

NextRequests ==
    \/ \E req \in {r \in Requests : r.limit = MaxLimit},
          answer \in {a \in Answers : a.embedding \in {<<1, 0>>, <<1, 0, 0>>, << >>}} :
          search_transcripts(req, answer)
    \/ \E split \in {NoText, Str(workforce)} : list_transcripts(split)
    \/ \E transcript_id \in 0..MaxIds : get_transcript(transcript_id)
    \/ get_summary

SpecRequests == InitRequests /\ [][NextRequests]_vars

\* One search by a server that has one vector and one record with
\* messages.  The content of the k-th message is a run of the k-th letter.
MaxMessages == 4

ContentLengths == {40, 100, 130}

Content(k, length) == [n \in 1..length |-> LowerLetters[k]]

MessageLists ==
    UNION {{[k \in 1..n |-> [role |-> IF k % 2 = 1 THEN "ai" ELSE "user",
                             content |-> Content(k, lengths[k])]] :
               lengths \in [1..n -> ContentLengths]} : n \in 0..MaxMessages}

InitSnippet ==
    /\ BuilderIdle
    /\ NoExtraction
    /\ INPUT_FILE = 0
    /\ BATCH_SIZE = 1
    /\ runs_left = 0
    /\ audit = FALSE
    /\ provDim = 2
    /\ server_up = TRUE
    /\ embeddings_order = <<1>>
    /\ embeddings_data = [tid \in {1} |-> <<1, 0>>]
    /\ embedding_model = "voyage-3"
    /\ embedding_dimension = 2
    /\ OUTPUT_FILE = OutputDoc(embeddings_data, embedding_model, embedding_dimension)
    /\ transcripts_data \in
          {[tid \in {1} |-> [transcript_id |-> tid, split |-> workforce,
                             sentiment |-> NoText, industry |-> NoText,
                             messages |-> messages]] :
              messages \in MessageLists}
    /\ transcript_ids = Ascending(DOMAIN transcripts_data)
    /\ DATA_FILE = DataDoc(transcripts_data)
    /\ NoExchange
    /\ requests_left = 1

NextSnippet ==
    \E answer \in {a \in Answers : a.embedding = <<1, 0>>} :
        search_transcripts(SearchRequest("ai at work", 1, 0, NoText, NoText, NoText),
                           answer)

SpecSnippet == InitSnippet /\ [][NextSnippet]_vars

\* The normalization job, start-up and one summary request, over records
\* with the two list fields the extraction job wrote.
email == <<"e", "m", "a", "i", "l">>
code == <<"c", "o", "d", "e">>
slow == <<"s", "l", "o", "w">>
Writing == <<"W", "r", "i", "t", "i", "n", "g">>
Coding == <<"C", "o", "d", "i", "n", "g">>
Accuracy == <<"A", "c", "c", "u", "r", "a", "c", "y">>

\* What extract_fields may return for primary_use_cases and for
\* key_pain_points (extract.py:27-54): a list, or "UNKNOWN".
UseCaseValues ==
    {PyList(<< >>), PyList(<<email>>), PyList(<<email, code>>), PyList(<<UNKNOWN>>),
     Str(UNKNOWN)}
PainPointValues == {PyList(<< >>), PyList(<<slow>>)}

ExtractedRecord(tid, use_cases, pain_points) ==
    [transcript_id |-> tid,
     split |-> IF tid % 2 = 1 THEN workforce ELSE creatives,
     sentiment |-> NoText,
     industry |-> NoText,
     primary_use_cases |-> use_cases,
     key_pain_points |-> pain_points]

Mappings(values, categories) == UNION {[keys -> categories] : keys \in SUBSET values}

InitSummary ==
    /\ BuilderIdle
    /\ NoExtraction
    /\ INPUT_FILE = MaxIds
    /\ BATCH_SIZE = 1
    /\ runs_left = 0
    /\ audit = FALSE
    /\ provDim = 2
    /\ OUTPUT_FILE = Absent
    /\ server_up = FALSE
    /\ embeddings_data = EmptyMap
    /\ embedding_model = ""
    /\ embedding_dimension = 0
    /\ embeddings_order = << >>
    /\ transcripts_data = EmptyMap
    /\ transcript_ids = << >>
    /\ NoExchange
    /\ requests_left = 1
    /\ DATA_FILE \in
          {DataDoc([tid \in 1..MaxIds |->
                       ExtractedRecord(tid, use_cases[tid], pain_points[tid])]) :
              use_cases \in [1..MaxIds -> UseCaseValues],
              pain_points \in [1..MaxIds -> PainPointValues]}

NextSummary ==
    \/ \E use_case_mapping \in Mappings({email, code}, {Writing, Coding}),
          pain_point_mapping \in Mappings({slow}, {Accuracy}) :
          normalize_main(use_case_mapping, pain_point_mapping)
    \/ lifespan
    \/ get_summary

SpecSummary == InitSummary /\ [][NextSummary]_vars

\* ================================================================= claims

\* What an uninterrupted run over records 1..n with model m computes when
\* the provider answers with vectors of length d throughout.
UninterruptedEmbeddings(n, m, d) == [id \in 1..n |-> Vec(id, m, d)]

\* The previous run was a first build (no resume, nothing on disk), was
\* interrupted, and this run resumes it over the same records, model and
\* provider responses.
ResumesInterruptedBuild ==
    /\ args.resume
    /\ prev.outcome = "interrupted"
    /\ ~prev.resume
    /\ prev.clean
    /\ prev.model = args.model
    /\ prev.transcripts = transcripts
    /\ prev.provChanges = provChanges

\* C1: a resumed run that completes after an interrupted first run over the
\* same records and provider responses leaves a final store whose
\* embeddings equal, for every id, those of an uninterrupted run.
C1_ResumeEqualsUninterrupted ==
    (pc = "done" /\ ResumesInterruptedBuild)
        => /\ OUTPUT_FILE.kind = "json"
           /\ OUTPUT_FILE.embeddings
                = UninterruptedEmbeddings(transcripts, args.model, provDim)

\* C2: in every checkpoint the builder has written, and in the builder's
\* memory after loading and merging, processed_ids is exactly the key set
\* of embeddings.
C2_ProcessedIdsAreEmbeddingKeys ==
    /\ CHECKPOINT_FILE.kind = "json"
          => CHECKPOINT_FILE.processed_ids = DOMAIN CHECKPOINT_FILE.embeddings
    /\ processed_ids = DOMAIN embeddings

\* A resumed run has merged a batch on top of a non-empty loaded checkpoint.
C2_Witness ==
    /\ args.resume
    /\ pc = "save_open"
    /\ CHECKPOINT_FILE.kind = "json"
    /\ CHECKPOINT_FILE.processed_ids # {}
    /\ CHECKPOINT_FILE.processed_ids \subseteq processed_ids
    /\ CHECKPOINT_FILE.processed_ids # processed_ids
    /\ Cardinality(processed_ids \ CHECKPOINT_FILE.processed_ids) > 1

\* C3: a run that ends without error (here: over at least one record) has
\* written the final store assembled from its checkpoint state and leaves
\* no checkpoint file on disk.
C3_CompletedRunWroteStore ==
    (pc = "done" /\ transcripts > 0)
        => /\ OUTPUT_FILE = OutputDoc(embeddings, args.model, dimension)
           /\ CHECKPOINT_FILE.kind = "absent"

\* C4: a rate-limit signal makes the builder call the provider again with
\* the same batch and nothing else changed; a batch is attempted at most 5
\* times; the signal on the fifth attempt ends the run with the provider's
\* error, and an aborted run writes no file.
C4_RateLimitRetry ==
    [][ /\ pc = "embed" => attempt + 1 <= 5
        /\ RateLimited =>
              IF attempt + 1 < 5
              THEN /\ pc' = "embed"
                   /\ Batch(to_process, i, BATCH_SIZE)'
                        = Batch(to_process, i, BATCH_SIZE)
                   /\ UNCHANGED <<processed_ids, embeddings, dimension, disk>>
              ELSE /\ pc' = "aborted"
                   /\ err' = "RateLimitError"
                   /\ UNCHANGED disk
        /\ (pc = "aborted" /\ pc' = "aborted") => UNCHANGED disk
      ]_vars

\* The fifth attempt of a later batch was rate limited and the run aborted.
C4_Witness ==
    /\ pc = "aborted"
    /\ err = "RateLimitError"
    /\ attempt = 4
    /\ i > 0

\* C5: when a run aborts on a provider error, the checkpoint on disk is the
\* builder's state after the last batch this run committed: what it saved,
\* or what it loaded if it resumed and committed nothing, or no earlier
\* run's checkpoint if it started without resume and committed nothing.
C5_AbortLeavesCommittedCheckpoint ==
    (pc = "aborted" /\ err \in {"RateLimitError", "ProviderError"})
        => IF i > 0
           THEN CHECKPOINT_FILE
                  = CheckpointDoc(processed_ids, embeddings, args.model, dimension)
           ELSE IF args.resume
           THEN /\ CHECKPOINT_FILE.kind # "partial"
                /\ load_checkpoint(CHECKPOINT_FILE)
                     = [processed_ids |-> processed_ids, embeddings |-> embeddings]
           ELSE CHECKPOINT_FILE.kind # "json"

\* The provider signalled a rate limit exactly once, on the second batch,
\* and every other call succeeded, in a finished build of five records in
\* batches of two.
OneRateLimitOnSecondBatch ==
    /\ pc = "done"
    /\ transcripts = 5
    /\ BATCH_SIZE = 2
    /\ rlBatches = [b \in {2} |-> 1]

\* C6: in that scenario all five records are embedded, each record is part
\* of exactly one successful provider call, and the provider was called
\* exactly 4 times.
C6_ScenarioFourCalls ==
    OneRateLimitOnSecondBatch
        => /\ OUTPUT_FILE.kind = "json"
           /\ DOMAIN OUTPUT_FILE.embeddings = 1..5
           /\ \A id \in 1..5 : OUTPUT_FILE.embeddings[id].id = id
           /\ okCalls = [id \in 1..5 |-> 1]
           /\ nCalls = 4

C6_Witness ==
    /\ OneRateLimitOnSecondBatch
    /\ OUTPUT_FILE.kind = "json"
    /\ nCalls = 4

\* C7: the dimension is the vector length of the first successful batch and
\* no later batch of the run with another vector length is merged.
C7_MismatchedBatchNotMerged ==
    \A k \in 1..Len(to_process) :
        to_process[k] \in DOMAIN embeddings
            => embeddings[to_process[k]].len = dimension

\* C8: in every final store the builder wrote and every store the server
\* loaded, each vector's length is the declared dimension.
C8_StoredVectorsHaveDeclaredDimension ==
    /\ OUTPUT_FILE.kind = "json"
          => \A id \in DOMAIN OUTPUT_FILE.embeddings :
                OUTPUT_FILE.embeddings[id].len = OUTPUT_FILE.dimension
    /\ server_up
          => \A id \in DOMAIN embeddings_data :
                Len(embeddings_data[id]) = embedding_dimension

\* C9: every vector of a final store was produced by a provider call made
\* with the model named in the store's model field.
C9_StoreVectorsFromItsModel ==
    OUTPUT_FILE.kind = "json"
        => \A id \in DOMAIN OUTPUT_FILE.embeddings :
              OUTPUT_FILE.embeddings[id].model = OUTPUT_FILE.model

\* C10: at every point of a run the checkpoint file is absent or a complete
\* document with processed_ids equal to the keys of its embeddings.
C10_CheckpointNeverHalfWritten ==
    \/ CHECKPOINT_FILE.kind = "absent"
    \/ /\ CHECKPOINT_FILE.kind = "json"
       /\ CHECKPOINT_FILE.processed_ids = DOMAIN CHECKPOINT_FILE.embeddings

\* C11: the batches of a run are handled one after the other: whenever the
\* run stands before the provider call of a batch, the checkpoint on disk
\* is a completely written document that lists every ID of all earlier
\* batches of this run, so no batch was passed without being recorded.
C11_NextBatchAfterCheckpoint ==
    (pc = "embed" /\ i > 0)
        => /\ CHECKPOINT_FILE.kind = "json"
           /\ \A k \in 1..i : to_process[k] \in CHECKPOINT_FILE.processed_ids
           /\ \A k \in 1..i : to_process[k] \in DOMAIN CHECKPOINT_FILE.embeddings

\* A run stands before the provider call of its second batch, which it has
\* already tried once.
C11_Witness ==
    /\ pc = "embed"
    /\ i = BATCH_SIZE
    /\ attempt > 0
    /\ Len(to_process) > BATCH_SIZE

\* The search the server handled last returned a page.
SearchReturned == response.endpoint = "search" /\ response.status_code = 200

\* The full ranked sequence of the search handled last.
LastRanked ==
    Ranked(embeddings_order, transcripts_data, embeddings_data, request,
           vo_call.embedding)

\* C12: the full ranked sequence a search computes is in descending order
\* of score, and of two results with equal score the one with the smaller
\* ID comes first (stated for the searches all of whose scores are numbers).
C12_RankedByScoreThenId ==
    (SearchReturned /\ \A k \in 1..Len(LastRanked) : ~LastRanked[k].score.nan)
        => \A k \in 1..(Len(LastRanked) - 1) :
              \/ Lt(LastRanked[k + 1].score, LastRanked[k].score)
              \/ /\ Eq(LastRanked[k].score, LastRanked[k + 1].score)
                 /\ LastRanked[k].tid < LastRanked[k + 1].tid

\* The two searches handled last asked for the first page and then for the
\* page after it, with the same query, filters, page length and query vector.
TwoPages ==
    /\ SearchReturned
    /\ previous_search.response.endpoint = "search"
    /\ previous_search.response.status_code = 200
    /\ previous_search.request.query = request.query
    /\ previous_search.request.split = request.split
    /\ previous_search.request.sentiment = request.sentiment
    /\ previous_search.request.industry = request.industry
    /\ previous_search.vo_call.embedding = vo_call.embedding
    /\ previous_search.request.offset = 0
    /\ previous_search.request.limit = request.limit
    /\ request.offset = request.limit

\* C13: the results of search(offset=0, limit=L) followed by those of
\* search(offset=L, limit=L) are the first min(2L, total) elements of the
\* full ranked sequence, none repeated and none skipped.
C13_TwoPagesArePrefix ==
    TwoPages
        => /\ previous_search.response.results \o response.results
                = [k \in 1..Min(2 * request.limit, Len(LastRanked)) |->
                      Result(LastRanked[k], transcripts_data[LastRanked[k].tid])]
           /\ response.total = Len(LastRanked)
           /\ previous_search.response.total = Len(LastRanked)
           /\ \A j, k \in 1..Len(previous_search.response.results \o response.results) :
                 j # k => (previous_search.response.results \o response.results)[j].transcript_id
                            # (previous_search.response.results \o response.results)[k].transcript_id

\* A second page that is shorter than the first: three results in pages of
\* two.
C13_Witness ==
    /\ TwoPages
    /\ request.limit = 2
    /\ response.total = 3
    /\ Len(previous_search.response.results) = 2
    /\ Len(response.results) = 1

\* The IDs that have a vector in the store and a record, and whose record
\* passes every filter of the request handled last.
Matching ==
    {tid \in DOMAIN embeddings_data \cap DOMAIN transcripts_data :
        Passes(transcripts_data[tid], request)}

\* C14: the total a search returns is the number of IDs that are in the
\* store and in the records and pass every supplied filter, whatever the
\* offset and limit; the page is the slice [offset, offset + limit) of the
\* sorted sequence.
C14_TotalAndSlice ==
    SearchReturned
        => /\ response.total = Cardinality(Matching)
           /\ Len(response.results)
                = Min(request.limit, Len(LastRanked) - Min(request.offset, Len(LastRanked)))
           /\ \A k \in 1..Len(response.results) :
                 response.results[k]
                    = Result(LastRanked[request.offset + k],
                             transcripts_data[LastRanked[request.offset + k].tid])

\* Of three stored IDs one is filtered out by its split; the page that
\* starts at offset 1 holds the second of the two matches.
C14_Witness ==
    /\ SearchReturned
    /\ Len(embeddings_order) = 3
    /\ Truthy(request.split)
    /\ response.total = 2
    /\ request.offset = 1
    /\ request.limit = 2
    /\ Len(response.results) = 1

\* The filter rule as C15 words it, with "absent" read as "not supplied",
\* and the rule with "absent" read as "not supplied or empty".  A field the
\* record lacks counts as the empty string.
SplitOk(absent) ==
    absent \/ transcripts_data[1].split = request.split.text
SentimentOk(absent) ==
    \/ absent
    \/ Lower(Get(transcripts_data[1].sentiment, << >>)) = Lower(request.sentiment.text)
IndustryOk(absent) ==
    \/ absent
    \/ Contains(Lower(request.industry.text),
                Lower(Get(transcripts_data[1].industry, << >>)))

\* C15 as stated: the record passes exactly when the split filter is absent
\* or equals its split, the sentiment filter is absent or equals its
\* sentiment ignoring case, and the industry filter is absent or is
\* contained in its industry ignoring case.
C15_PassesExactlyWhenStated ==
    SearchReturned
        => ((response.total = 1)
              <=> /\ SplitOk(~request.split.some)
                  /\ SentimentOk(~request.sentiment.some)
                  /\ IndustryOk(~request.industry.some))

\* C15, amended: the same rule where a filter that is the empty string
\* counts as absent; with no filter the record with a stored vector passes.
C15_PassesExactlyWhenNonEmpty ==
    SearchReturned
        => /\ (response.total = 1)
                <=> /\ SplitOk(~Truthy(request.split))
                    /\ SentimentOk(~Truthy(request.sentiment))
                    /\ IndustryOk(~Truthy(request.industry))
           /\ (~Truthy(request.split) /\ ~Truthy(request.sentiment)
                 /\ ~Truthy(request.industry)) => response.total = 1

\* The industry filter "tech" finds the record of industry "FinTech" while
\* an exact split filter and a sentiment filter in another case hold too.
C15_Witness ==
    /\ SearchReturned
    /\ response.total = 1
    /\ Truthy(request.split)
    /\ Truthy(request.sentiment)
    /\ Truthy(request.industry)
    /\ Lower(request.industry.text) # Lower(transcripts_data[1].industry.text)
    /\ request.sentiment.text # transcripts_data[1].sentiment.text

\* The field of the record is the unknown sentinel, or missing.
Unknown(field) == ~field.some \/ field.text = UNKNOWN

\* C16: a record whose sentiment is the sentinel or missing is in no search
\* with a non-empty sentiment filter, and a record whose industry is the
\* sentinel or missing is in no search with a non-empty industry filter.
C16_UnknownNeverMatches ==
    SearchReturned
        => /\ (Truthy(request.sentiment) /\ Unknown(transcripts_data[1].sentiment))
                 => response.total = 0
           /\ (Truthy(request.industry) /\ Unknown(transcripts_data[1].industry))
                 => response.total = 0

\* C17: a search in which no stored ID passes the filters, and a search
\* over a loaded store without entries, return an empty list with total 0
\* and no error (when the provider answers the query).
C17_EmptyResultNotError ==
    (/\ response.endpoint = "search"
     /\ embedding_model # ""
     /\ Matching = {}
     /\ ~(vo_call.made /\ ~vo_call.ok))
        => /\ response.status_code = 200
           /\ response.total = 0
           /\ response.results = << >>

\* C18: a search whose query vector has another length than the store's
\* declared dimension fails, whichever filters are supplied.
C18_MismatchedQueryFails ==
    (/\ response.endpoint = "search"
     /\ vo_call.made
     /\ vo_call.ok
     /\ Len(vo_call.embedding) # embedding_dimension)
        => /\ response.status_code # 200
           /\ response.raised # ""

\* C19: when the query vector or a candidate's vector has norm 0, the
\* candidate is in the ranking with score 0.
C19_ZeroNormScoresZero ==
    SearchReturned
        => \A k \in 1..Len(response.results) :
              (\/ Dot(vo_call.embedding, vo_call.embedding) = 0
               \/ Dot(embeddings_data[response.results[k].transcript_id],
                      embeddings_data[response.results[k].transcript_id]) = 0)
                 => response.results[k].score = [nan |-> FALSE, e4 |-> 0]

\* What GET /api/transcripts answers with the records the server holds.
ListAnswer ==
    /\ response.status_code = 200
    /\ response.total
          = Cardinality({tid \in DOMAIN transcripts_data :
                            \/ ~request.split.some
                            \/ transcripts_data[tid].split = request.split.text})
    /\ Len(response.results) = response.total

\* What GET /api/transcript/{id} answers with the records the server holds.
GetAnswer ==
    IF request.transcript_id \in DOMAIN transcripts_data
    THEN /\ response.status_code = 200
         /\ response.results = <<transcripts_data[request.transcript_id]>>
    ELSE response.status_code = 404

\* C20: a server that found no snapshot at start-up answers every search
\* with the 503 "not available" response and makes no provider call for
\* it, and goes on answering the list and get endpoints.
C20_NoStoreServiceUnavailable ==
    (server_up /\ OUTPUT_FILE.kind = "absent")
        => /\ response.endpoint = "search"
                => /\ response.status_code = 503
                   /\ response.raised = "HTTPException"
                   /\ response.detail = "Search not available - embeddings not loaded"
                   /\ ~vo_call.made
           /\ response.endpoint = "list" => ListAnswer
           /\ response.endpoint = "get" => GetAnswer

\* A server without a store that holds records has answered a search.
C20_Witness ==
    /\ server_up
    /\ OUTPUT_FILE.kind = "absent"
    /\ DOMAIN transcripts_data # {}
    /\ response.endpoint = "search"
    /\ response.status_code = 503

\* C21: a search whose provider call fails is answered with the
\* temporarily-unavailable response (503), not with an unhandled exception,
\* after that one provider call.
C21_ProviderFailureUnavailable ==
    (response.endpoint = "search" /\ vo_call.made /\ ~vo_call.ok)
        => /\ response.status_code = 503
           /\ response.raised = "HTTPException"

\* C22: every provider call of the builder uses document mode with the
\* model of the run, and every provider call of a search uses query mode
\* with the model name of the loaded store.
C22_DocumentAndQueryMode ==
    /\ embed_call.made
          => /\ embed_call.input_type = "document"
             /\ embed_call.model = args.model
    /\ vo_call.made
          => /\ vo_call.input_type = "query"
             /\ vo_call.model = embedding_model
             /\ embedding_model \in Models

\* The builder has called the provider, the server has loaded the store
\* the builder wrote, and a search has called the provider.
C22_Witness ==
    /\ embed_call.made
    /\ embed_call.ok
    /\ vo_call.made
    /\ OUTPUT_FILE.kind = "json"
    /\ embedding_model = OUTPUT_FILE.model

\* C23: no step of a request handler (list, get, summary, search) changes
\* the loaded records, the loaded embeddings, the store's model or its
\* dimension.
C23_HandlersLeaveStoreAlone ==
    [][/\ transcripts_data' = transcripts_data
       /\ transcript_ids' = transcript_ids
       /\ embeddings_data' = embeddings_data
       /\ embeddings_order' = embeddings_order
       /\ embedding_model' = embedding_model
       /\ embedding_dimension' = embedding_dimension]_vars

\* Three requests have been handled, the last one a search that returned
\* results.
C23_Witness ==
    /\ requests_left = 0
    /\ SearchReturned
    /\ response.total = MaxIds

\* The separator-joined fragment string of the record the server holds.
JoinedFragments == Joined(Parts(transcripts_data[1].messages))

\* C24: the snippet of a result is the joined fragment string cut to 250
\* characters and followed by "..." exactly when the joined string was
\* longer than 250 characters; otherwise it is the joined string unchanged.
C24_EllipsisIffTruncated ==
    (SearchReturned /\ Len(response.results) = 1)
        => response.results[1].snippet
              = IF Len(JoinedFragments) > 250
                THEN SubSeq(JoinedFragments, 1, 250) \o <<".", ".", ".">>
                ELSE JoinedFragments

\* Every fragment has at most 100 characters, and a fragment is added only
\* while the fragments before it have at most 200 characters together.
FragmentsWithinBudget ==
    LET parts == Parts(transcripts_data[1].messages)
    IN  \A k \in 1..Len(parts) :
           /\ Len(parts[k]) <= 100
           /\ parts[k] = SubSeq(transcripts_data[1].messages[k].content, 1,
                                Min(100, Len(transcripts_data[1].messages[k].content)))
           /\ SumOver([j \in 1..(k - 1) |-> Len(parts[j])], 1..(k - 1)) <= 200

\* The IDs of the batches the run in progress has committed: the batches
\* before the one at i, and all batches once the loop is left.
Committed ==
    IF pc \in {"embed", "save_open", "save_dump"}
    THEN {to_process[k] : k \in 1..i}
    ELSE IF pc \in {"final_open", "final_dump", "cleanup"}
    THEN Range(to_process)
    ELSE {}

\* The embedding of the ID can be read from a completely written file.
Recoverable(id) ==
    \/ /\ CHECKPOINT_FILE.kind = "json"
       /\ id \in DOMAIN CHECKPOINT_FILE.embeddings
       /\ CHECKPOINT_FILE.embeddings[id] = embeddings[id]
    \/ /\ OUTPUT_FILE.kind = "json"
       /\ id \in DOMAIN OUTPUT_FILE.embeddings
       /\ OUTPUT_FILE.embeddings[id] = embeddings[id]

\* C25: at every point at which a run can be interrupted, the embedding of
\* every ID of a committed batch is on disk, in the checkpoint or in the
\* final store.
C25_CommittedRecoverable ==
    ~Stopped => \A id \in Committed : Recoverable(id)

\* The checkpoint is deleted only when the final store is completely
\* written and holds every embedding of the checkpoint.
CheckpointDeletedAfterStore ==
    [][(CHECKPOINT_FILE.kind # "absent" /\ CHECKPOINT_FILE'.kind = "absent")
          => /\ OUTPUT_FILE.kind = "json"
             /\ CHECKPOINT_FILE.kind = "json"
             /\ \A id \in DOMAIN CHECKPOINT_FILE.embeddings :
                   /\ id \in DOMAIN OUTPUT_FILE.embeddings
                   /\ OUTPUT_FILE.embeddings[id] = CHECKPOINT_FILE.embeddings[id]]_vars

\* The whole elements a transcript may be counted with: those of its
\* normalized category list or, when that field is absent, of its raw list.
WholeElements(t, normalized, raw) ==
    IF normalized \in DOMAIN t
    THEN IF "list" \in DOMAIN t[normalized] THEN t[normalized].list ELSE << >>
    ELSE IF raw \in DOMAIN t /\ "list" \in DOMAIN t[raw] THEN t[raw].list ELSE << >>

\* The raw list is empty or unknown.
RawUnknown(t, raw) ==
    \/ raw \notin DOMAIN t
    \/ "list" \notin DOMAIN t[raw]
    \/ t[raw].list = << >>

SummaryReturned == response.endpoint = "summary" /\ response.raised = ""

CountedAsStated(top, normalized, raw) ==
    \A name \in DOMAIN top :
        /\ \E tid \in DOMAIN transcripts_data :
              name \in Range(WholeElements(transcripts_data[tid], normalized, raw))
        /\ top[name] <=
              Cardinality({tid \in DOMAIN transcripts_data :
                              /\ ~RawUnknown(transcripts_data[tid], raw)
                              /\ name \in Range(WholeElements(transcripts_data[tid],
                                                              normalized, raw))})

\* C26: every name counted under use cases or pain points in the summary is
\* a whole element of some transcript's normalized category list (of its
\* raw list when the normalized field is absent), and only transcripts
\* whose raw list is neither empty nor unknown are counted, also when the
\* records were normalized before they were loaded.
C26_CountsWholeElements ==
    SummaryReturned
        => /\ CountedAsStated(response.results[1].top_use_cases,
                              "use_case_categories", "primary_use_cases")
           /\ CountedAsStated(response.results[1].top_pain_points,
                              "pain_point_categories", "key_pain_points")

\* The same holds of servers whose records no normalization has touched
\* and whose raw use cases are all lists.
RawListsCountWholeElements ==
    (SummaryReturned /\ \A tid \in DOMAIN transcripts_data :
                            /\ "use_case_categories" \notin DOMAIN transcripts_data[tid]
                            /\ "list" \in DOMAIN transcripts_data[tid].primary_use_cases)
        => CountedAsStated(response.results[1].top_use_cases,
                           "use_case_categories", "primary_use_cases")

ResumedRunComplete == extract_pc = "done" /\ extract_args.resume

\* C27: when a run of the extraction job that was started with --resume
\* completes, the output file has a record for every transcript ID the
\* checkpoint it loaded marked as processed, wherever the earlier run was
\* interrupted.
C27_ResumedOutputHasCheckpointedRecords ==
    ResumedRunComplete
        => /\ DATA_FILE.kind = "json"
           /\ extract_loaded \subseteq DOMAIN DATA_FILE.transcripts

\* The other half of the sentence holds: an extraction that fails leaves
\* processed_ids and the records alone, and the loop goes on to the next
\* item.
FailedExtractionLeftOut ==
    [][extract_fails
         => /\ extract_processed_ids' = extract_processed_ids
            /\ extract_transcripts_data' = extract_transcripts_data
            /\ extract_i + 1 \notin extract_processed_ids'
            /\ extract_pc' = "loop"
            /\ extract_i' = extract_i + 1]_vars

====
